---- MODULE Spec2Model ----
(***************************************************************************)
(* The per-client WebSocket session actor of                              *)
(* crates/client-api/src/routes/subscribe.rs: handle_websocket's enqueue  *)
(* of the identity token, ws_client_actor (cleanup guard) and             *)
(* ws_client_actor_inner (the select loop).                               *)
(*                                                                         *)
(* A state of the model is a suspension point of the actor task: the      *)
(* select! (pc = "select"), one of the awaited framing operations         *)
(* ("feed", "flush", "module_close", "ping", "send_error",                *)
(* "close_error"), the awaited disconnect ("disconnecting"), or an end    *)
(* ("done", "cancelled").  An action runs the code from one suspension    *)
(* point to the next, the top of the loop (lines 239-250) included.       *)
(***************************************************************************)
EXTENDS Integers, Sequences, FiniteSets

\* Bounds of the model.
MaxIn == 3        \* inbound data payloads the peer sends
MaxOut == 2       \* outbound messages produced besides the identity token
MaxConnId == 2    \* connection ids run over 0..MaxConnId
MaxBurst == 34    \* longest outbound backlog a single receive is tried on

\* sendrx.recv_many(&mut rx_buf, 32)
RecvLimit == 32

VARIABLES
    pc,             \* where the actor task is suspended
    current_message,\* the in-flight slot: MaybeDone::{Gone, Future, Done}
    message_queue,  \* inbound queue: payload ids, front first
    got_pong,       \* liveness flag
    closed,         \* closed flag
    msg_buffer,     \* the scratch buffer: "pool" (in msg_buffer) or "lent" (held by msg_alloc)
    rx_buf,         \* the rest of the batch being sent
    sendq,          \* outbound channel contents (0 is the identity token)
    sendOpen,       \* outbound channel accepts sends
    identity,       \* handle_websocket's send of the identity token: "pending", "queued", "failed"
    peerClose,      \* a Close frame has been read from the socket
    also_polled,    \* the in-flight slot is polled at this suspension point
    disconnects,    \* calls of client.disconnect()
    teardown,       \* "none", "awaited", "spawned", "dropped", "finished"
    metric,         \* ws_clients_closed_connection
    \* history (ghost) variables
    wrote,          \* what the actor's latest step handed to the framing layer, or "none"
    fed,            \* outbound messages fed to the framing layer, in order
    firstData,      \* the first data frame handed to the framing layer: "none", "token", "other"
    recvd,          \* outbound messages taken by recv_many, in order
    started,        \* payload ids whose handler future was created, in order
    completed,      \* payload ids whose handler future resolved, in order
    taken,          \* payload ids whose output was taken by the in-flight arm, in order
    nextIn,         \* id of the next inbound payload
    nextOut,        \* id of the next outbound message
    lastOutcome,    \* outcome of the framing operation the actor's latest step awaited, or "none"
    exitReason,     \* why the loop was left
    bufFault,       \* a serialization began without the scratch buffer
    handled,        \* the handler result the latest post-wait dispatch was given, or "none"
    ticks,          \* liveness ticks so far: 0, then 1 and 2 in turn
    pongSinceTick,  \* a Pong frame was dispatched since the last tick
    module_closes,  \* close frames "module exited" attempted so far
    \* handle_websocket
    hw              \* the upgrade request: its inputs, how far it got, its response

actorVars == <<pc, current_message, message_queue, got_pong, closed, msg_buffer, rx_buf,
          sendq, sendOpen, identity, peerClose, also_polled, disconnects, teardown,
          metric, wrote, fed, firstData, recvd, started, completed, taken, nextIn,
          nextOut, lastOutcome, exitReason, bufFault, handled, ticks, pongSinceTick,
          module_closes>>

vars == <<actorVars, hw>>

----------------------------------------------------------------------------
\* Data

IdentityToken == 0

Gone == [st |-> "Gone", id |-> 0, res |-> "none"]
Future(id) == [st |-> "Future", id |-> id, res |-> "none"]
Done(id, res) == [st |-> "Done", id |-> id, res |-> res]

\* Result<(), MessageHandleError>
HandleResults == {"Ok", "Execution", "Other"}

\* WsMessage variants surfaced by the transport
WsMessages == {"Text", "Binary", "Ping", "Pong", "Close"}

\* Outcomes of tokio::time::timeout(SEND_TIMEOUT, <framing operation>)
Outcomes == {"ok", "err", "timeout"}

\* What is handed to the framing layer: ws.feed of a message, ws.flush, ws.send of a
\* Ping or of an execution error, ws.close(Away) and ws.close(Error)
Writes == {"msg", "flush", "ping", "error", "close_away", "close_error"}
DataWrites == {"msg", "error"}

LoopPcs == {"select", "feed", "flush", "module_close", "ping", "send_error", "close_error"}
FramingPcs == LoopPcs \ {"select"}

Min(a, b) == IF a <= b THEN a ELSE b

\* ClientMessage::from_message
from_message(m) ==
    CASE m = "Text" -> "Message"
      [] m = "Binary" -> "Message"
      [] m = "Ping" -> "Ping"
      [] m = "Pong" -> "Pong"
      [] m = "Close" -> "Close"

\* ConnectionId::ZERO
ZERO == 0

\* Mutation: got_pong starts false
got_pong_init_false == FALSE

\* let mut got_pong = true
got_pong_init == TRUE

\* The request whose actor runs: handle_websocket got as far as ClientConnection::spawn
ActorSpawned ==
    [pc |-> "actor", connection_id |-> <<1>>, id |-> <<1>>, offer |-> "bin",
     light |-> FALSE, status |-> "101", protocol |-> <<"Binary">>,
     did |-> <<"resolve", "select_protocol", "get_database", "leader", "module_watcher",
               "tokio_spawn", "upgrade", "spawn">>]

----------------------------------------------------------------------------
ActorInit ==
    /\ pc = "select"
    /\ current_message = Gone
    /\ message_queue = <<>>
    /\ got_pong = got_pong_init
    /\ closed = FALSE
    /\ msg_buffer = "pool"
    /\ rx_buf = <<>>
    /\ sendq = <<>>
    /\ sendOpen = TRUE
    /\ identity = "pending"
    /\ peerClose = FALSE
    /\ also_polled = TRUE
    /\ disconnects = 0
    /\ teardown = "none"
    /\ metric = 0
    /\ wrote = "none"
    /\ fed = <<>>
    /\ firstData = "none"
    /\ recvd = <<>>
    /\ started = <<>>
    /\ completed = <<>>
    /\ taken = <<>>
    /\ nextIn = 1
    /\ nextOut = 1
    /\ lastOutcome = "none"
    /\ exitReason = "none"
    /\ bufFault = FALSE
    /\ handled = "none"
    /\ ticks = 0
    /\ pongSinceTick = FALSE
    /\ module_closes = 0

\* The actor starts when handle_websocket's task has spawned it
Init ==
    /\ ActorInit
    /\ hw = ActorSpawned

----------------------------------------------------------------------------
\* Helpers of the loop

\* Mutation: the payload is pushed at the front of the queue
push_front(q, x) == <<x>> \o q

\* message_queue.push_back((message, timer))
push_back(q, x) == Append(q, x)

\* Mutation: a payload is popped whether or not the slot is Gone
ShouldPop_IgnoreSlot(q, c) == q # <<>>


\* Mutation: the last payload of the queue is never popped
ShouldPop_LeavesLast(q, c) == c.st = "Gone" /\ Len(q) > 1

\* if let MaybeDone::Gone = *current_message { if let Some(..) = message_queue.pop_front()
ShouldPop(q, c) == c.st = "Gone" /\ q # <<>>


\* Mutation: the receive takes everything the channel holds
recv_many_unlimited(q, limit) == q

\* sendrx.recv_many(&mut rx_buf, 32): the first n messages of the channel, in order
recv_many(q, limit) == SubSeq(q, 1, Min(Len(q), limit))

\* Mutation: the batch is drained back to front
drain_rev(batch) == [i \in 1..Len(batch) |-> batch[Len(batch) + 1 - i]]

\* rx_buf.drain(..n): the messages of the batch in the order the loop serializes them
drain(batch) == batch

\* Mutation: the allocation is not put back into msg_buffer
try_reclaim_skipped(b) == b

\* msg_alloc.try_reclaim(): the scratch buffer is back in msg_buffer
try_reclaim(b) == "pool"

\* serialize(msg_buffer, ..): consumes the scratch buffer
serialize(b) == [buf |-> "lent", fault |-> b # "pool"]

\* Mutation: the ping is awaited without also_poll
AlsoPoll_NoPing(site) == site \in {"feed", "flush", "module_close"}

\* The slot is polled beside the awaited operation: also_poll(op, make_progress(..))
AlsoPoll(site) == site \in {"feed", "flush", "module_close", "ping"}

\* Top of the loop: rx_buf.clear(), move one payload into an empty slot, wait in select!
LoopTop(q, c) ==
    /\ pc' = "select"
    /\ rx_buf' = <<>>
    /\ also_polled' = TRUE
    /\ IF ShouldPop(q, c)
         THEN /\ message_queue' = Tail(q)
              /\ current_message' = Future(Head(q))
              /\ started' = Append(started, Head(q))
         ELSE /\ message_queue' = q
              /\ current_message' = c
              /\ started' = started


\* Mutation: the queue and the handler slot outlive ws_client_actor_inner
Leave_KeepsHandler(to, how, reason) ==
    /\ pc' = to
    /\ sendOpen' = FALSE
    /\ sendq' = <<>>
    /\ message_queue' = message_queue
    /\ current_message' = current_message
    /\ rx_buf' = <<>>
    /\ also_polled' = FALSE
    /\ teardown' = how
    /\ exitReason' = reason
    /\ started' = started

\* ws_client_actor_inner is left (it returns, or its future is dropped): sendrx is closed
\* and dropped with the queue, the slot and the socket
Leave(to, how, reason) ==
    /\ pc' = to
    /\ sendOpen' = FALSE
    /\ sendq' = <<>>
    /\ message_queue' = <<>>
    /\ current_message' = Gone
    /\ rx_buf' = <<>>
    /\ also_polled' = FALSE
    /\ teardown' = how
    /\ exitReason' = reason
    /\ started' = started

\* break; sendrx.close(); ScopeGuard::into_inner(client).disconnect().await
Break(reason) ==
    /\ Leave("disconnecting", "awaited", reason)
    /\ disconnects' = disconnects + 1

\* Mutation: an expired deadline is handled like a send error
Expired_Never(o) == FALSE


\* Mutation: a transport error ends the loop like an expired deadline
Expired_OrFailed(o) == o \in {"timeout", "err"}

\* Whether the outcome of a send under SEND_TIMEOUT leaves the loop
Expired(o) == o = "timeout"

----------------------------------------------------------------------------
\* Producers of the outbound channel

\* client.send_message(IdentityTokenMessage) after ClientConnection::spawn returned
SendIdentityToken ==
    /\ identity = "pending"
    /\ IF sendOpen
         THEN sendq' = Append(sendq, IdentityToken) /\ identity' = "queued"
         ELSE sendq' = sendq /\ identity' = "failed"
    /\ UNCHANGED <<pc, current_message, message_queue, got_pong, closed, msg_buffer,
                   rx_buf, sendOpen, peerClose, also_polled, disconnects, teardown,
                   metric, wrote, fed, firstData, recvd, started, completed, taken,
                   nextIn, nextOut, lastOutcome, exitReason, bufFault>>
    /\ UNCHANGED <<handled, ticks, pongSinceTick, hw, module_closes>>

\* Another component enqueues a message for this session
Produce ==
    /\ sendOpen
    /\ nextOut <= MaxOut
    /\ sendq' = Append(sendq, nextOut)
    /\ nextOut' = nextOut + 1
    /\ UNCHANGED <<pc, current_message, message_queue, got_pong, closed, msg_buffer,
                   rx_buf, sendOpen, identity, peerClose, also_polled, disconnects,
                   teardown, metric, wrote, fed, firstData, recvd, started, completed,
                   taken, nextIn, lastOutcome, exitReason, bufFault>>
    /\ UNCHANGED <<handled, ticks, pongSinceTick, hw, module_closes>>

----------------------------------------------------------------------------
\* The select loop

\* continue: the actor stays in the loop
Continue(q, c) ==
    /\ LoopTop(q, c)
    /\ UNCHANGED <<disconnects, teardown, exitReason>>

\* The actor awaits a framing operation at `site`
Await(site) ==
    /\ pc' = site
    /\ also_polled' = AlsoPoll(site)
    /\ UNCHANGED <<disconnects, teardown, exitReason>>

\* The step hands nothing to the framing layer
NoWrite ==
    /\ wrote' = "none"
    /\ UNCHANGED <<fed, firstData>>

\* The step hands a frame (or a flush) to the framing layer
Write(kind, id) ==
    /\ wrote' = kind
    /\ fed' = IF kind = "msg" THEN Append(fed, id) ELSE fed
    /\ firstData' = IF firstData = "none" /\ kind \in DataWrites
                      THEN IF kind = "msg" /\ id = IdentityToken THEN "token" ELSE "other"
                      ELSE firstData


\* Mutation: an Execution error closes the connection like any other handler error
DispatchHandleResult_ExecutionCloses(res) ==
    CASE res = "Ok" ->
           /\ Continue(message_queue, Gone)
           /\ NoWrite
           /\ UNCHANGED <<msg_buffer, bufFault>>
      [] res \in {"Execution", "Other"} ->
           /\ Write("close_error", 0)
           /\ Await("close_error")
           /\ current_message' = Gone
           /\ UNCHANGED <<message_queue, rx_buf, started, msg_buffer, bufFault>>

\* Post-wait dispatch of Item::HandleResult(res); the slot is Gone
DispatchHandleResult(res) ==
    CASE res = "Ok" ->
           /\ Continue(message_queue, Gone)
           /\ NoWrite
           /\ UNCHANGED <<msg_buffer, bufFault>>
      [] res = "Execution" ->
           /\ bufFault' = (bufFault \/ serialize(msg_buffer).fault)
           /\ msg_buffer' = serialize(msg_buffer).buf
           /\ Write("error", 0)
           /\ Await("send_error")
           /\ current_message' = Gone
           /\ UNCHANGED <<message_queue, rx_buf, started>>
      [] res = "Other" ->
           /\ Write("close_error", 0)
           /\ Await("close_error")
           /\ current_message' = Gone
           /\ UNCHANGED <<message_queue, rx_buf, started, msg_buffer, bufFault>>

\* Arm A: the in-flight future resolves (or has resolved while pumped) and its output is taken
ArmA_HandleResult ==
    /\ pc = "select"
    /\ current_message.st # "Gone"
    /\ \E res \in HandleResults :
         /\ current_message.st = "Done" => res = current_message.res
         /\ completed' = IF current_message.st = "Future"
                           THEN Append(completed, current_message.id)
                           ELSE completed
         /\ taken' = Append(taken, current_message.id)
         /\ handled' = res
         /\ DispatchHandleResult(res)
    /\ lastOutcome' = "none"
    /\ UNCHANGED <<got_pong, closed, sendq, sendOpen, identity, peerClose, metric, recvd,
                   nextIn, nextOut>>
    /\ UNCHANGED <<ticks, pongSinceTick, hw, module_closes>>


\* Mutation: the pump takes the output of the resolved handler and drops it
Pump_TakesOutput ==
    /\ pc \in FramingPcs
    /\ also_polled
    /\ current_message.st = "Future"
    /\ current_message' = Gone
    /\ completed' = Append(completed, current_message.id)
    /\ UNCHANGED <<pc, message_queue, got_pong, closed, msg_buffer, rx_buf, sendq, sendOpen,
                   identity, peerClose, also_polled, disconnects, teardown, metric, wrote,
                   fed, firstData, recvd, started, taken, nextIn, nextOut, lastOutcome,
                   exitReason, bufFault>>
    /\ UNCHANGED <<handled, ticks, pongSinceTick, hw, module_closes>>

\* make_progress(&mut current_message) polled beside an awaited framing operation
Pump ==
    /\ pc \in FramingPcs
    /\ also_polled
    /\ current_message.st = "Future"
    /\ \E res \in HandleResults :
         current_message' = Done(current_message.id, res)
    /\ completed' = Append(completed, current_message.id)
    /\ UNCHANGED <<pc, message_queue, got_pong, closed, msg_buffer, rx_buf, sendq, sendOpen,
                   identity, peerClose, also_polled, disconnects, teardown, metric, wrote,
                   fed, firstData, recvd, started, taken, nextIn, nextOut, lastOutcome,
                   exitReason, bufFault>>
    /\ UNCHANGED <<handled, ticks, pongSinceTick, hw, module_closes>>

\* Arm B, a data frame: Item::Message(ClientMessage::Message(..)) is pushed onto the queue
ArmB_Message ==
    /\ pc = "select"
    /\ ~peerClose
    /\ nextIn <= MaxIn
    /\ \E m \in WsMessages : from_message(m) = "Message"
    /\ Continue(push_back(message_queue, nextIn), current_message)
    /\ nextIn' = nextIn + 1
    /\ NoWrite
    /\ lastOutcome' = "none"
    /\ UNCHANGED <<got_pong, closed, msg_buffer, sendq, sendOpen, identity, peerClose,
                   metric, recvd, completed, taken, nextOut, bufFault>>
    /\ handled' = "none"
    /\ UNCHANGED <<ticks, pongSinceTick, hw, module_closes>>

\* Arm B, a Ping frame: nothing to do
ArmB_Ping ==
    /\ pc = "select"
    /\ ~peerClose
    /\ from_message("Ping") = "Ping"
    /\ Continue(message_queue, current_message)
    /\ NoWrite
    /\ lastOutcome' = "none"
    /\ UNCHANGED <<got_pong, closed, msg_buffer, sendq, sendOpen, identity, peerClose,
                   metric, recvd, completed, taken, nextIn, nextOut, bufFault>>
    /\ handled' = "none"
    /\ UNCHANGED <<ticks, pongSinceTick, hw, module_closes>>

\* Arm B, a Pong frame
ArmB_Pong ==
    /\ pc = "select"
    /\ ~peerClose
    /\ from_message("Pong") = "Pong"
    /\ got_pong' = TRUE
    /\ Continue(message_queue, current_message)
    /\ NoWrite
    /\ lastOutcome' = "none"
    /\ UNCHANGED <<closed, msg_buffer, sendq, sendOpen, identity, peerClose, metric,
                   recvd, completed, taken, nextIn, nextOut, bufFault>>
    /\ handled' = "none"
    /\ pongSinceTick' = TRUE
    /\ UNCHANGED <<ticks, hw, module_closes>>


\* Mutation: a Close frame from the peer ends the loop at once
ArmB_Close_Breaks ==
    /\ pc = "select"
    /\ ~peerClose
    /\ from_message("Close") = "Close"
    /\ peerClose' = TRUE
    /\ metric' = IF ~closed THEN metric + 1 ELSE metric
    /\ closed' = TRUE
    /\ Break("eos")
    /\ NoWrite
    /\ lastOutcome' = "none"
    /\ UNCHANGED <<got_pong, msg_buffer, identity, recvd, completed, taken,
                   nextIn, nextOut, bufFault>>
    /\ handled' = "none"
    /\ UNCHANGED <<ticks, pongSinceTick, hw, module_closes>>

\* Arm B, a Close frame: sendrx.close(), the metric if not closed, closed = true
ArmB_Close ==
    /\ pc = "select"
    /\ ~peerClose
    /\ from_message("Close") = "Close"
    /\ peerClose' = TRUE
    /\ sendOpen' = FALSE
    /\ metric' = IF ~closed THEN metric + 1 ELSE metric
    /\ closed' = TRUE
    /\ Continue(message_queue, current_message)
    /\ NoWrite
    /\ lastOutcome' = "none"
    /\ UNCHANGED <<got_pong, msg_buffer, sendq, identity, recvd, completed, taken,
                   nextIn, nextOut, bufFault>>
    /\ handled' = "none"
    /\ UNCHANGED <<ticks, pongSinceTick, hw, module_closes>>


\* Mutation: a close frame is written when the read side fails or ends
ArmB_End_WritesClose ==
    /\ pc = "select"
    /\ \E r \in {"read_error", "eos"} : Break(r)
    /\ Write("close_error", 0)
    /\ lastOutcome' = "none"
    /\ UNCHANGED <<got_pong, closed, msg_buffer, identity, peerClose, metric, recvd,
                   completed, taken, nextIn, nextOut, bufFault>>
    /\ handled' = "none"
    /\ UNCHANGED <<ticks, pongSinceTick, hw, module_closes>>

\* Arm B, a receive error or the end of the stream: break
ArmB_End ==
    /\ pc = "select"
    /\ \E r \in {"read_error", "eos"} : Break(r)
    /\ NoWrite
    /\ lastOutcome' = "none"
    /\ UNCHANGED <<got_pong, closed, msg_buffer, identity, peerClose, metric, recvd,
                   completed, taken, nextIn, nextOut, bufFault>>
    /\ handled' = "none"
    /\ UNCHANGED <<ticks, pongSinceTick, hw, module_closes>>

\* Serialize the next message of the batch and feed it to the framing layer
FeedNext(buf, batch) ==
    /\ bufFault' = (bufFault \/ serialize(buf).fault)
    /\ msg_buffer' = serialize(buf).buf
    /\ Write("msg", Head(batch))
    /\ rx_buf' = Tail(batch)
    /\ Await("feed")
    /\ UNCHANGED <<message_queue, current_message, started>>

\* Arm C: a batch is received; dropped when closed, else send_all starts
ArmC_Recv ==
    /\ pc = "select"
    /\ sendq # <<>>
    /\ LET batch == recv_many(sendq, RecvLimit) IN
         /\ sendq' = SubSeq(sendq, Len(batch) + 1, Len(sendq))
         /\ recvd' = recvd \o batch
         /\ IF closed
              THEN /\ Continue(message_queue, current_message)
                   /\ NoWrite
                   /\ UNCHANGED <<msg_buffer, bufFault>>
              ELSE FeedNext(msg_buffer, drain(batch))
    /\ lastOutcome' = "none"
    /\ UNCHANGED <<got_pong, closed, sendOpen, identity, peerClose, metric, completed,
                   taken, nextIn, nextOut>>
    /\ handled' = "none"
    /\ UNCHANGED <<ticks, pongSinceTick, hw, module_closes>>

\* ws.feed(..) inside send_all returns, or the send deadline expires
FeedDone ==
    /\ pc = "feed"
    /\ \E o \in Outcomes :
         /\ lastOutcome' = o
         /\ IF Expired(o)
              THEN /\ Break("send_timeout")
                   /\ NoWrite
                   /\ UNCHANGED <<msg_buffer, bufFault>>
              ELSE /\ UNCHANGED <<sendq, sendOpen>>
                   /\ IF o = "err"
                        THEN /\ msg_buffer' = try_reclaim(msg_buffer)
                             /\ Continue(message_queue, current_message)
                             /\ NoWrite
                             /\ UNCHANGED bufFault
                        ELSE IF rx_buf # <<>>
                               THEN FeedNext(try_reclaim(msg_buffer), rx_buf)
                               ELSE /\ msg_buffer' = try_reclaim(msg_buffer)
                                    /\ Write("flush", 0)
                                    /\ Await("flush")
                                    /\ UNCHANGED <<bufFault, rx_buf, message_queue,
                                                   current_message, started>>
    /\ UNCHANGED <<got_pong, closed, identity, peerClose, metric, recvd, completed, taken,
                   nextIn, nextOut>>
    /\ handled' = "none"
    /\ UNCHANGED <<ticks, pongSinceTick, hw, module_closes>>

\* ws.flush() at the end of send_all returns, or the send deadline expires
FlushDone ==
    /\ pc = "flush"
    /\ \E o \in Outcomes :
         /\ lastOutcome' = o
         /\ IF Expired(o)
              THEN Break("send_timeout")
              ELSE /\ Continue(message_queue, current_message)
                   /\ UNCHANGED <<sendq, sendOpen>>
    /\ NoWrite
    /\ UNCHANGED <<got_pong, closed, msg_buffer, identity, peerClose, metric, recvd,
                   completed, taken, nextIn, nextOut, bufFault>>
    /\ handled' = "none"
    /\ UNCHANGED <<ticks, pongSinceTick, hw, module_closes>>

\* Arm D, Ok(()): the module is still there
ArmD_ModuleOk ==
    /\ pc = "select"
    /\ ~closed
    /\ Continue(message_queue, current_message)
    /\ NoWrite
    /\ lastOutcome' = "none"
    /\ UNCHANGED <<got_pong, closed, msg_buffer, sendq, sendOpen, identity, peerClose,
                   metric, recvd, completed, taken, nextIn, nextOut, bufFault>>
    /\ handled' = "none"
    /\ UNCHANGED <<ticks, pongSinceTick, hw, module_closes>>


\* Mutation: the module-watch arm is polled whether or not the session is closed
ArmD_ModuleGone_Unguarded ==
    /\ pc = "select"
    /\ Write("close_away", 0)
    /\ Await("module_close")
    /\ lastOutcome' = "none"
    /\ UNCHANGED <<current_message, message_queue, got_pong, closed, msg_buffer, rx_buf,
                   sendq, sendOpen, identity, peerClose, metric, recvd, started, completed,
                   taken, nextIn, nextOut, bufFault>>
    /\ handled' = "none"
    /\ module_closes' = module_closes + 1
    /\ UNCHANGED <<ticks, pongSinceTick, hw>>

\* Arm D, Err(NoSuchModule): ws.close(Away, "module exited") under the deadline
ArmD_ModuleGone ==
    /\ pc = "select"
    /\ ~closed
    /\ Write("close_away", 0)
    /\ Await("module_close")
    /\ lastOutcome' = "none"
    /\ UNCHANGED <<current_message, message_queue, got_pong, closed, msg_buffer, rx_buf,
                   sendq, sendOpen, identity, peerClose, metric, recvd, started, completed,
                   taken, nextIn, nextOut, bufFault>>
    /\ handled' = "none"
    /\ module_closes' = module_closes + 1
    /\ UNCHANGED <<ticks, pongSinceTick, hw>>


\* Mutation: a failed close frame leaves the session open
ModuleCloseDone_ErrStaysOpen ==
    /\ pc = "module_close"
    /\ \E o \in Outcomes :
         /\ lastOutcome' = o
         /\ IF Expired(o)
              THEN Break("send_timeout") /\ UNCHANGED closed
              ELSE /\ closed' = (o = "ok")
                   /\ Continue(message_queue, current_message)
                   /\ UNCHANGED <<sendq, sendOpen>>
    /\ NoWrite
    /\ UNCHANGED <<got_pong, msg_buffer, identity, peerClose, metric, recvd, completed,
                   taken, nextIn, nextOut, bufFault>>
    /\ handled' = "none"
    /\ UNCHANGED <<ticks, pongSinceTick, hw, module_closes>>

\* The module-exit close returns, or the send deadline expires
ModuleCloseDone ==
    /\ pc = "module_close"
    /\ \E o \in Outcomes :
         /\ lastOutcome' = o
         /\ IF Expired(o)
              THEN Break("send_timeout") /\ UNCHANGED closed
              ELSE /\ closed' = TRUE
                   /\ Continue(message_queue, current_message)
                   /\ UNCHANGED <<sendq, sendOpen>>
    /\ NoWrite
    /\ UNCHANGED <<got_pong, msg_buffer, identity, peerClose, metric, recvd, completed,
                   taken, nextIn, nextOut, bufFault>>
    /\ handled' = "none"
    /\ UNCHANGED <<ticks, pongSinceTick, hw, module_closes>>


\* Mutation: every tick pings, whether or not a Pong came back
ArmE_Tick_AlwaysPing ==
    /\ pc = "select"
    /\ got_pong' = FALSE
    /\ Write("ping", 0)
    /\ Await("ping")
    /\ lastOutcome' = "none"
    /\ UNCHANGED <<current_message, message_queue, rx_buf, started, sendq, sendOpen,
                   closed, msg_buffer, identity, peerClose, metric, recvd, completed,
                   taken, nextIn, nextOut, bufFault>>
    /\ handled' = "none"
    /\ ticks' = (IF ticks = 1 THEN 2 ELSE 1)
    /\ pongSinceTick' = FALSE
    /\ UNCHANGED <<hw, module_closes>>

\* Arm E: the liveness interval ticks; mem::take(&mut got_pong)
ArmE_Tick ==
    /\ pc = "select"
    /\ got_pong' = FALSE
    /\ IF got_pong
         THEN /\ Write("ping", 0)
              /\ Await("ping")
              /\ UNCHANGED <<current_message, message_queue, rx_buf, started, sendq,
                             sendOpen>>
         ELSE /\ Break("liveness")
              /\ NoWrite
    /\ lastOutcome' = "none"
    /\ UNCHANGED <<closed, msg_buffer, identity, peerClose, metric, recvd, completed,
                   taken, nextIn, nextOut, bufFault>>
    /\ handled' = "none"
    /\ ticks' = (IF ticks = 1 THEN 2 ELSE 1)
    /\ pongSinceTick' = FALSE
    /\ UNCHANGED <<hw, module_closes>>

\* The ping returns, or the send deadline expires
PingDone ==
    /\ pc = "ping"
    /\ \E o \in Outcomes :
         /\ lastOutcome' = o
         /\ IF Expired(o)
              THEN Break("send_timeout")
              ELSE /\ Continue(message_queue, current_message)
                   /\ UNCHANGED <<sendq, sendOpen>>
    /\ NoWrite
    /\ UNCHANGED <<got_pong, closed, msg_buffer, identity, peerClose, metric, recvd,
                   completed, taken, nextIn, nextOut, bufFault>>
    /\ handled' = "none"
    /\ UNCHANGED <<ticks, pongSinceTick, hw, module_closes>>

\* The send of the execution-error frame returns, or the send deadline expires
SendErrorDone ==
    /\ pc = "send_error"
    /\ \E o \in Outcomes :
         /\ lastOutcome' = o
         /\ IF Expired(o)
              THEN Break("send_timeout") /\ UNCHANGED msg_buffer
              ELSE /\ msg_buffer' = try_reclaim(msg_buffer)
                   /\ Continue(message_queue, current_message)
                   /\ UNCHANGED <<sendq, sendOpen>>
    /\ NoWrite
    /\ UNCHANGED <<got_pong, closed, identity, peerClose, metric, recvd, completed, taken,
                   nextIn, nextOut, bufFault>>
    /\ UNCHANGED <<handled, ticks, pongSinceTick, hw, module_closes>>

\* The close after a handler error returns, or the send deadline expires
CloseErrorDone ==
    /\ pc = "close_error"
    /\ \E o \in Outcomes :
         /\ lastOutcome' = o
         /\ IF Expired(o)
              THEN Break("send_timeout")
              ELSE /\ Continue(message_queue, current_message)
                   /\ UNCHANGED <<sendq, sendOpen>>
    /\ NoWrite
    /\ UNCHANGED <<got_pong, closed, msg_buffer, identity, peerClose, metric, recvd,
                   completed, taken, nextIn, nextOut, bufFault>>
    /\ UNCHANGED <<handled, ticks, pongSinceTick, hw, module_closes>>

----------------------------------------------------------------------------
\* ws_client_actor: the cleanup guard

\* Mutation: no guard, a cancelled actor only drops its state
Cancel_Unguarded ==
    /\ pc \in LoopPcs
    /\ Leave("cancelled", "none", "cancelled")
    /\ NoWrite
    /\ lastOutcome' = "none"
    /\ UNCHANGED <<got_pong, closed, msg_buffer, identity, peerClose, metric, recvd,
                   completed, taken, nextIn, nextOut, bufFault, disconnects>>
    /\ handled' = "none"
    /\ UNCHANGED <<ticks, pongSinceTick, hw, module_closes>>

\* The actor task is cancelled while ws_client_actor_inner is suspended: the inner
\* future is dropped and the guard spawns client.disconnect()
Cancel ==
    /\ pc \in LoopPcs
    /\ Leave("cancelled", "spawned", "cancelled")
    /\ disconnects' = disconnects + 1
    /\ NoWrite
    /\ lastOutcome' = "none"
    /\ UNCHANGED <<got_pong, closed, msg_buffer, identity, peerClose, metric, recvd,
                   completed, taken, nextIn, nextOut, bufFault>>
    /\ handled' = "none"
    /\ UNCHANGED <<ticks, pongSinceTick, hw, module_closes>>

\* The actor task is cancelled while it awaits disconnect: the guard was defused by
\* into_inner, the disconnect future is dropped
CancelDisconnect ==
    /\ pc = "disconnecting"
    /\ pc' = "cancelled"
    /\ teardown' = "dropped"
    /\ NoWrite
    /\ lastOutcome' = "none"
    /\ UNCHANGED <<current_message, message_queue, got_pong, closed, msg_buffer, rx_buf,
                   sendq, sendOpen, identity, peerClose, also_polled, disconnects, metric,
                   recvd, started, completed, taken, nextIn, nextOut, exitReason,
                   bufFault>>
    /\ handled' = "none"
    /\ UNCHANGED <<ticks, pongSinceTick, hw, module_closes>>

\* The awaited disconnect returns and the actor task ends
DisconnectDone ==
    /\ pc = "disconnecting"
    /\ pc' = "done"
    /\ teardown' = "finished"
    /\ NoWrite
    /\ lastOutcome' = "none"
    /\ UNCHANGED <<current_message, message_queue, got_pong, closed, msg_buffer, rx_buf,
                   sendq, sendOpen, identity, peerClose, also_polled, disconnects, metric,
                   recvd, started, completed, taken, nextIn, nextOut, exitReason,
                   bufFault>>
    /\ handled' = "none"
    /\ UNCHANGED <<ticks, pongSinceTick, hw, module_closes>>

\* The disconnect spawned by the guard runs to its end
SpawnedDisconnectDone ==
    /\ teardown = "spawned"
    /\ teardown' = "finished"
    /\ UNCHANGED <<pc, current_message, message_queue, got_pong, closed, msg_buffer, rx_buf,
                   sendq, sendOpen, identity, peerClose, also_polled, disconnects, metric,
                   wrote, fed, firstData, recvd, started, completed, taken, nextIn,
                   nextOut, lastOutcome, exitReason, bufFault>>
    /\ UNCHANGED <<handled, ticks, pongSinceTick, hw, module_closes>>

----------------------------------------------------------------------------
Next ==
    \/ ArmB_Message
    \/ ArmB_Ping
    \/ ArmB_Pong
    \/ ArmB_Close
    \/ ArmB_End
    \/ ArmA_HandleResult
    \/ Pump
    \/ SendIdentityToken
    \/ Produce
    \/ ArmC_Recv
    \/ FeedDone
    \/ FlushDone
    \/ ArmD_ModuleOk
    \/ ArmD_ModuleGone
    \/ ModuleCloseDone
    \/ ArmE_Tick
    \/ PingDone
    \/ SendErrorDone
    \/ CloseErrorDone
    \/ Cancel
    \/ CancelDisconnect
    \/ DisconnectDone
    \/ SpawnedDisconnectDone

Spec == Init /\ [][Next]_vars

----------------------------------------------------------------------------
\* handle_websocket: the upgrade request, from its arrival to the spawn of the actor

ConnIds == 0 .. MaxConnId

\* Subprotocol offers of the peer: the binary one, the text one, or neither
Offers == {"bin", "text", "other"}

\* ws.select_protocol([(BIN_PROTOCOL, Protocol::Binary), (TEXT_PROTOCOL, Protocol::Text)])
select_protocol(offer) ==
    IF offer = "bin" THEN <<"Binary">>
    ELSE IF offer = "text" THEN <<"Text">>
    ELSE <<>>

\* A request arrives: the connection_id query parameter is optional
InitHW ==
    /\ ActorInit
    /\ \E c \in {<<>>} \cup {<<i>> : i \in ConnIds}, o \in Offers, l \in BOOLEAN :
         hw = [pc |-> "start", connection_id |-> c, id |-> <<>>, offer |-> o, light |-> l,
               status |-> "none", protocol |-> <<>>, did |-> <<>>]

\* The response is an error status: handle_websocket returns
Reject(status) == [hw EXCEPT !.pc = "returned", !.status = status]

\* A step of handle_websocket was run
Did(step) == [hw EXCEPT !.did = Append(@, step)]

\* Mutation: the reserved all-zero id is let through
HW_ConnectionId_NoZeroCheck ==
    /\ hw.pc = "start"
    /\ \E r \in ConnIds :
         LET id == IF hw.connection_id # <<>> THEN hw.connection_id[1] ELSE r IN
         hw' = [hw EXCEPT !.pc = "resolve", !.id = <<id>>]
    /\ UNCHANGED actorVars

\* connection_id.map(..).unwrap_or_else(generate_random_connection_id), then the ZERO check
HW_ConnectionId ==
    /\ hw.pc = "start"
    /\ \E r \in ConnIds :
         LET id == IF hw.connection_id # <<>> THEN hw.connection_id[1] ELSE r IN
         hw' = IF id = ZERO
                 THEN [Reject("400") EXCEPT !.id = <<id>>]
                 ELSE [hw EXCEPT !.pc = "resolve", !.id = <<id>>]
    /\ UNCHANGED actorVars

\* name_or_identity.resolve(&ctx).await?
HW_Resolve ==
    /\ hw.pc = "resolve"
    /\ \E ok \in BOOLEAN :
         hw' = IF ok THEN [Did("resolve") EXCEPT !.pc = "select_protocol"]
                     ELSE [Did("resolve") EXCEPT !.pc = "returned", !.status = "resolve_error"]
    /\ UNCHANGED actorVars

\* ws.select_protocol(..); protocol.ok_or(BAD_REQUEST)?
HW_SelectProtocol ==
    /\ hw.pc = "select_protocol"
    /\ hw' = IF select_protocol(hw.offer) # <<>>
                THEN [Did("select_protocol") EXCEPT !.pc = "get_database",
                                                    !.protocol = select_protocol(hw.offer)]
                ELSE [Did("select_protocol") EXCEPT !.pc = "returned", !.status = "400"]
    /\ UNCHANGED actorVars

\* ctx.get_database_by_identity(..).unwrap().ok_or(NOT_FOUND)?
HW_GetDatabase ==
    /\ hw.pc = "get_database"
    /\ \E found \in BOOLEAN :
         hw' = IF found THEN [Did("get_database") EXCEPT !.pc = "leader"]
                        ELSE [Did("get_database") EXCEPT !.pc = "returned", !.status = "404"]
    /\ UNCHANGED actorVars

\* ctx.leader(database.id).await.map_err(log_and_500)?.ok_or(NOT_FOUND)?
HW_Leader ==
    /\ hw.pc = "leader"
    /\ \E r \in {"some", "none", "err"} :
         hw' = CASE r = "some" -> [Did("leader") EXCEPT !.pc = "module_watcher"]
                 [] r = "none" -> [Did("leader") EXCEPT !.pc = "returned", !.status = "404"]
                 [] r = "err" -> [Did("leader") EXCEPT !.pc = "returned", !.status = "500"]
    /\ UNCHANGED actorVars

\* leader.module_watcher().await.map_err(log_and_500)?
HW_ModuleWatcher ==
    /\ hw.pc = "module_watcher"
    /\ \E ok \in BOOLEAN :
         hw' = IF ok THEN [Did("module_watcher") EXCEPT !.pc = "respond"]
                     ELSE [Did("module_watcher") EXCEPT !.pc = "returned", !.status = "500"]
    /\ UNCHANGED actorVars

\* tokio::spawn(async move { .. }); Ok(res)
HW_Respond ==
    /\ hw.pc = "respond"
    /\ hw' = [Did("tokio_spawn") EXCEPT !.pc = "upgrade", !.status = "101"]
    /\ UNCHANGED actorVars

\* ws_upgrade.upgrade(ws_config).await in the spawned task
HW_Upgrade ==
    /\ hw.pc = "upgrade"
    /\ \E ok \in BOOLEAN :
         hw' = IF ok THEN [Did("upgrade") EXCEPT !.pc = "connect"]
                     ELSE [Did("upgrade") EXCEPT !.pc = "ended"]
    /\ UNCHANGED actorVars

\* ClientConnection::spawn(client_id, client_config, .., actor).await
HW_Spawn ==
    /\ hw.pc = "connect"
    /\ \E r \in {"ok", "rejected", "died"} :
         hw' = IF r = "ok" THEN [Did("spawn") EXCEPT !.pc = "actor"]
                          ELSE [Did("spawn") EXCEPT !.pc = "ended"]
    /\ UNCHANGED actorVars

NextHW ==
    \/ HW_ConnectionId
    \/ HW_Resolve
    \/ HW_SelectProtocol
    \/ HW_GetDatabase
    \/ HW_Leader
    \/ HW_ModuleWatcher
    \/ HW_Respond
    \/ HW_Upgrade
    \/ HW_Spawn

SpecHW == InitHW /\ [][NextHW]_vars

----------------------------------------------------------------------------
\* The outbound arm on a backlog: the channel holds the identity token and the
\* messages produced before the loop first reaches the select

InitBatch ==
    \E n \in 0 .. MaxBurst :
        /\ pc = "select"
        /\ current_message = Gone
        /\ message_queue = <<>>
        /\ got_pong = got_pong_init
        /\ closed = FALSE
        /\ msg_buffer = "pool"
        /\ rx_buf = <<>>
        /\ sendq = [i \in 1 .. n |-> IdentityToken + i - 1]
        /\ sendOpen = TRUE
        /\ identity = IF n = 0 THEN "pending" ELSE "queued"
        /\ peerClose = FALSE
        /\ also_polled = TRUE
        /\ disconnects = 0
        /\ teardown = "none"
        /\ metric = 0
        /\ wrote = "none"
        /\ fed = <<>>
        /\ firstData = "none"
        /\ recvd = <<>>
        /\ started = <<>>
        /\ completed = <<>>
        /\ taken = <<>>
        /\ nextIn = 1
        /\ nextOut = IF n = 0 THEN 1 ELSE n
        /\ lastOutcome = "none"
        /\ exitReason = "none"
        /\ bufFault = FALSE
        /\ handled = "none"
        /\ ticks = 0
        /\ pongSinceTick = FALSE
        /\ module_closes = 0
            /\ hw = ActorSpawned

NextBatch ==
    \/ ArmC_Recv
    \/ FeedDone
    \/ FlushDone

SpecBatch == InitBatch /\ [][NextBatch]_vars

----------------------------------------------------------------------------
\* The timers of the actor fire: the liveness interval keeps ticking while the
\* loop waits at the select, and every framing-layer send is bounded by
\* SEND_TIMEOUT, so it returns or expires.  A started disconnect completes.
FairSpec ==
    /\ Spec
    /\ WF_vars(ArmE_Tick)
    /\ WF_vars(FeedDone)
    /\ WF_vars(FlushDone)
    /\ WF_vars(ModuleCloseDone)
    /\ WF_vars(PingDone)
    /\ WF_vars(SendErrorDone)
    /\ WF_vars(CloseErrorDone)

\* A send awaited under SEND_TIMEOUT returns or expires
SendReturns ==
    \/ FeedDone
    \/ FlushDone
    \/ ModuleCloseDone
    \/ PingDone
    \/ SendErrorDone
    \/ CloseErrorDone

\* Every handler eventually resolves, and select! picks among its ready arms
\* at random, so an in-flight arm that is ready again and again is taken
HandlerFairSpec ==
    /\ Spec
    /\ WF_vars(SendReturns)
    /\ SF_vars(ArmA_HandleResult)

----------------------------------------------------------------------------
\* Properties

InLoop == pc \in LoopPcs

Range(s) == {s[i] : i \in 1..Len(s)}

Pos(s, x) == CHOOSE i \in 1..Len(s) : s[i] = x

IsPrefix(s, t) == Len(s) <= Len(t) /\ \A i \in 1..Len(s) : s[i] = t[i]

\* s is a subsequence of t, for t without repetitions
IsSubseq(s, t) ==
    /\ \A i \in 1..Len(s) : s[i] \in Range(t)
    /\ \A i, j \in 1..Len(s) : i < j => Pos(t, s[i]) < Pos(t, s[j])

\* C1: while the loop runs, the handler futures created and not yet taken are exactly
\* the one in the slot: none when the slot is Gone, one otherwise; so a payload is
\* moved into the slot only after the previous output was taken.
C1_AtMostOneHandler ==
    InLoop => Len(started) - Len(taken) = (IF current_message.st = "Gone" THEN 0 ELSE 1)

\* A second handler is in flight while another payload waits in the queue
C1_Witness ==
    /\ current_message.st = "Future"
    /\ Len(taken) >= 1
    /\ message_queue # <<>>

\* C2: handlers start in the order the payloads were read (ids 1, 2, ..), each once;
\* they complete in that order, a handler starts only when all earlier ones completed,
\* and the payloads read and not yet started wait in the queue in arrival order.
C2_FifoHandling ==
    /\ started = [i \in 1..Len(started) |-> i]
    /\ IsPrefix(completed, started)
    /\ Len(started) <= Len(completed) + 1
    /\ IsPrefix(taken, completed)
    /\ InLoop => started \o message_queue = [i \in 1..(nextIn - 1) |-> i]

\* Three handlers started, two payloads were queued together, outbound traffic interleaved
C2_Witness ==
    /\ Len(started) >= 3
    /\ Len(completed) >= 2
    /\ Len(fed) >= 1
    /\ got_pong = FALSE

\* C3: disconnect has not been called while the loop runs and has been called exactly
\* once when the actor has left the loop, by return or by cancellation.
C3_DisconnectOnce ==
    /\ InLoop => disconnects = 0
    /\ ~InLoop => disconnects = 1

\* The actor was cancelled with a handler in flight and the spawned disconnect ran
C3_Witness ==
    /\ pc = "cancelled"
    /\ exitReason = "cancelled"
    /\ teardown = "finished"
    /\ Len(started) > Len(completed)

\* C4 (as claimed): in a state where closed is true the actor's latest step handed
\* nothing to the framing layer: no feed, flush, Ping, error frame or close frame.
C4_ClosedNoWrite ==
    closed => wrote = "none"

\* C5 (as claimed): the first data frame the actor hands to the framing layer is the
\* identity token.
C5_IdentityTokenFirst ==
    firstData \in {"none", "token"}

\* C6: when the actor is suspended on a framing operation and the slot holds an
\* unresolved future, the slot is polled beside the operation.
C6_AntiStall ==
    (pc \in FramingPcs /\ current_message.st = "Future") => also_polled

\* Suspended on a framing operation with a handler in flight and a payload queued
C6_Witness ==
    /\ pc \in FramingPcs
    /\ current_message.st = "Future"
    /\ message_queue # <<>>

\* C7: a step in which a send deadline expires leaves the loop, calls disconnect,
\* hands nothing to the framing layer and starts no handler; and once the loop is
\* left nothing is handed to the framing layer and no handler starts.
C7_DeadlineExits ==
    /\ [][(pc \in FramingPcs /\ lastOutcome' = "timeout")
            => /\ pc' = "disconnecting"
               /\ exitReason' = "send_timeout"
               /\ disconnects' = disconnects + 1
               /\ wrote' = "none"
               /\ fed' = fed
               /\ started' = started]_vars
    /\ [][~InLoop => (wrote' = "none" /\ fed' = fed /\ started' = started /\ ~InLoop')]_vars

\* A send deadline expired while a handler was in flight and a payload was queued
C7_Witness ==
    /\ lastOutcome = "timeout"
    /\ pc = "disconnecting"
    /\ Len(started) > Len(completed)
    /\ nextIn - 1 > Len(started)

\* C8: no serialization begins without the scratch buffer, and while the loop runs the
\* buffer is out of the pool only while the frame serialized into it is being sent.
C8_BufferReclaimed ==
    /\ ~bufFault
    /\ (InLoop /\ msg_buffer = "lent") => pc \in {"feed", "send_error"}
    /\ pc \in {"feed", "send_error"} => msg_buffer = "lent"

\* A send has just failed with a non-timeout error, after an earlier serialization, and
\* the buffer is back in the pool
C8_Witness ==
    /\ pc = "select"
    /\ lastOutcome = "err"
    /\ wrote = "none"
    /\ Len(fed) >= 2
    /\ msg_buffer = "pool"

\* C9: the messages fed to the framing layer are a subsequence of the messages received
\* from the outbound receiver, in receive order.
C9_OutboundOrder ==
    IsSubseq(fed, recvd)

\* Two messages were fed and a message received between them was dropped
C9_Witness ==
    /\ Len(fed) >= 2
    /\ Pos(recvd, fed[Len(fed)]) > Len(fed)

\* C10 (as claimed): closed becomes true when a Close frame is dispatched, when the
\* module-exit close returns without timeout, and when the close after a handler
\* error returns without timeout.
C10_ClosingOnThreeEvents ==
    [][/\ (pc = "select" /\ ~peerClose /\ peerClose') => closed'
       /\ (pc = "module_close" /\ lastOutcome' \in {"ok", "err"}) => closed'
       /\ (pc = "close_error" /\ lastOutcome' \in {"ok", "err"}) => closed']_vars

----------------------------------------------------------------------------
\* C11: the step that dispatches the peer's Close frame closes the outbound
\* receiver and sets closed, and stays in the loop: it is back at the select
\* with the handler slot kept and no disconnect begun.  When a session whose
\* peer closed does return from the loop, it is on end-of-stream, a read
\* error, an expired send deadline or the liveness timeout.
C11_CloseKeepsLooping ==
    /\ [][(~peerClose /\ peerClose') =>
            /\ pc = "select" /\ pc' = "select"
            /\ closed' /\ ~sendOpen'
            /\ disconnects' = disconnects /\ teardown' = "none" /\ exitReason' = "none"
            /\ (current_message.st # "Gone" => current_message' = current_message)
            /\ (current_message.st = "Gone" /\ message_queue # <<>> =>
                   current_message' = Future(Head(message_queue)))]_vars
    /\ [](peerClose /\ pc \in {"disconnecting", "done"} =>
            exitReason \in {"eos", "read_error", "send_timeout", "liveness"})

\* After the peer's Close a handler result was taken and its error frame is being sent
C11_Witness == peerClose /\ pc = "send_error" /\ handled = "Execution"

\* C12: once the peer's Close frame has been dispatched the actor eventually
\* leaves the loop and disconnect is invoked; the session does not stay in
\* the closing state forever.
C12_CloseLeadsToDisconnect == (peerClose /\ InLoop) ~> (~InLoop /\ disconnects = 1)

\* The liveness arm ended a session whose peer had sent Close
C12_Witness == peerClose /\ exitReason = "liveness" /\ disconnects = 1

\* C13: got_pong is true exactly when no tick has fired yet or a Pong was
\* dispatched since the last tick.  A tick that finds got_pong true resets it
\* and sends a Ping; a tick that finds it false leaves the loop without
\* writing a frame.  So the liveness arm ends the session at a tick exactly
\* when no Pong was dispatched since the previous tick, never at the first
\* tick, and nothing else ends it with the liveness timeout.
C13_LivenessProbe ==
    /\ [](InLoop => (got_pong <=> (ticks = 0 \/ pongSinceTick)))
    /\ [][ticks' # ticks =>
            /\ pc = "select"
            /\ ~got_pong'
            /\ IF got_pong
                 THEN pc' = "ping" /\ wrote' = "ping" /\ exitReason' = "none"
                 ELSE pc' = "disconnecting" /\ wrote' = "none" /\ fed' = fed
                      /\ exitReason' = "liveness"
            /\ (exitReason' = "liveness" <=> (ticks # 0 /\ ~pongSinceTick))]_vars
    /\ [][(exitReason = "none" /\ exitReason' = "liveness") => ticks' # ticks]_vars

\* A Pong kept the session alive over one tick, and the next tick without one ended it
C13_Witness ==
    /\ exitReason = "liveness"
    /\ pc = "disconnecting"
    /\ ticks = 1

\* C14: the module-gone close is attempted only on a session that is not
\* closed, as a Close(Away) frame under the send deadline with the handler
\* pumped.  When it returns, with or without a transport error, closed is set
\* and the loop continues; when the deadline expires the loop exits.  From
\* then on a received outbound batch is dropped: nothing is serialized, fed or
\* written for it.
C14_ModuleExitCloses ==
    /\ [][(pc = "select" /\ pc' = "module_close") =>
            ~closed /\ ~closed' /\ wrote' = "close_away" /\ also_polled']_vars
    /\ [][(pc = "module_close" /\ lastOutcome' \in {"ok", "err"}) =>
            closed' /\ pc' = "select" /\ exitReason' = "none"]_vars
    /\ [][(pc = "module_close" /\ lastOutcome' = "timeout") =>
            pc' = "disconnecting" /\ exitReason' = "send_timeout"]_vars
    /\ [][(closed /\ recvd' # recvd) =>
            /\ pc' = "select"
            /\ wrote' = "none" /\ fed' = fed
            /\ msg_buffer' = msg_buffer /\ bufFault' = bufFault
            /\ rx_buf' = <<>>]_vars

\* The session was closed for the exited module, and a batch received
\* afterwards was dropped whole
C14_Witness ==
    /\ closed /\ ~peerClose
    /\ InLoop
    /\ recvd # <<>>
    /\ fed = <<>>

\* C15: a send that returns a transport error (not an expired deadline), on a
\* batch feed or flush, a ping, an error frame or a close frame, does not end
\* the loop in that step: the actor is back at the select with no disconnect
\* begun and nothing more written.  A loop that ends does so through the read
\* arm, an expired deadline or the liveness arm.
C15_WriteErrorContinues ==
    /\ [][(pc \in FramingPcs /\ lastOutcome' = "err") =>
            /\ pc' = "select"
            /\ exitReason' = "none"
            /\ disconnects' = disconnects /\ teardown' = "none"
            /\ wrote' = "none" /\ fed' = fed]_vars
    /\ [](pc \in {"disconnecting", "done"} =>
            exitReason \in {"read_error", "eos", "send_timeout", "liveness"})

\* A send failed on the transport and the loop went on with a handler in flight
C15_Witness ==
    /\ lastOutcome = "err"
    /\ pc = "select"
    /\ current_message.st = "Future"
    /\ ~closed

\* C16: the step that takes an Execution error serializes it and starts one
\* error frame under the send deadline, leaving closed, got_pong and the
\* inbound queue as they were and the slot empty.  When that send returns,
\* with or without a transport error, the loop continues with closed and
\* got_pong unchanged and the next queued payload, if any, becomes the
\* in-flight handler; when the deadline expires the loop exits.  No close
\* frame is written on this path.
C16_ExecutionErrorContinues ==
    /\ [][(taken' # taken /\ handled' = "Execution") =>
            /\ pc' = "send_error"
            /\ wrote' = "error"
            /\ msg_buffer' = "lent"
            /\ current_message' = Gone
            /\ closed' = closed /\ got_pong' = got_pong
            /\ message_queue' = message_queue
            /\ ~also_polled']_vars
    /\ [][(pc = "send_error" /\ lastOutcome' \in {"ok", "err"}) =>
            /\ pc' = "select"
            /\ wrote' = "none"
            /\ closed' = closed /\ got_pong' = got_pong
            /\ IF message_queue # <<>>
                 THEN /\ current_message' = Future(Head(message_queue))
                      /\ message_queue' = Tail(message_queue)
                 ELSE /\ current_message' = Gone
                      /\ message_queue' = <<>>]_vars
    /\ [][(pc = "send_error" /\ lastOutcome' = "timeout") =>
            pc' = "disconnecting" /\ exitReason' = "send_timeout" /\ wrote' = "none"]_vars
    /\ [](pc = "send_error" => handled = "Execution" /\ wrote = "error")

\* The error frame of an Execution error was sent, and the payload queued behind
\* it is now the in-flight handler
C16_Witness ==
    /\ handled = "Execution"
    /\ pc = "select"
    /\ lastOutcome = "ok"
    /\ current_message.st = "Future"
    /\ ~closed

C18_ZeroConnectionIdRejected ==
    /\ hw.id = <<ZERO>> => hw.pc = "returned" /\ hw.status = "400" /\ hw.did = <<>>
    /\ hw.connection_id = <<ZERO>> /\ hw.pc # "start" => hw.id = <<ZERO>>
    /\ hw.pc = "actor" => hw.id # <<>> /\ hw.id # <<ZERO>>
    /\ "spawn" \in Range(hw.did) \/ "tokio_spawn" \in Range(hw.did) => hw.id # <<ZERO>>

\* A request that supplied the all-zero id and offered the text protocol was rejected
C18_Witness ==
    /\ hw.connection_id = <<ZERO>>
    /\ hw.offer = "text"
    /\ hw.status = "400"
    /\ hw.pc = "returned"

\* C19: the step in which the socket read yields a transport error or the end
\* of the stream leaves the loop: no frame is written and nothing is fed, no
\* batch is received, no handler result is taken and no payload started; the
\* outbound receiver is closed with whatever it still held, and disconnect is
\* invoked.  Nothing is written, received or dispatched afterwards.
C19_ReadEndExits ==
    /\ [][(exitReason = "none" /\ exitReason' \in {"read_error", "eos"}) =>
            /\ pc = "select" /\ pc' = "disconnecting"
            /\ wrote' = "none" /\ fed' = fed /\ recvd' = recvd
            /\ taken' = taken /\ started' = started /\ completed' = completed
            /\ closed' = closed
            /\ ~sendOpen' /\ sendq' = <<>>
            /\ disconnects' = disconnects + 1 /\ teardown' = "awaited"]_vars
    /\ [][(exitReason \in {"read_error", "eos"}) =>
            /\ wrote' = "none" /\ fed' = fed /\ recvd' = recvd
            /\ taken' = taken /\ started' = started
            /\ disconnects' = disconnects]_vars

\* The read failed while a handler was in flight and the identity token was
\* still waiting in the outbound channel: neither was finished
C19_Witness ==
    /\ exitReason = "read_error"
    /\ identity = "queued"
    /\ recvd = <<>>
    /\ Len(started) > Len(taken)
    /\ teardown = "finished"

\* C20: a firing of the outbound arm takes the first messages of the channel,
\* at least 1 and at most 32.  On an open session the first is fed at once and
\* each feed that returns without error is followed by the feed of the next
\* message of the batch, with no flush in between; the flush is issued once,
\* after the feed of the last message returned without error, and the arm
\* ends when it returns.  A feed that fails ends the arm: the rest of the
\* batch is discarded and no flush is issued.
C20_BatchFeedThenFlushOnce ==
    /\ [][recvd' # recvd =>
            LET n == Len(recvd') - Len(recvd) IN
            /\ pc = "select"
            /\ n >= 1 /\ n <= RecvLimit /\ n <= Len(sendq)
            /\ recvd' = recvd \o SubSeq(sendq, 1, n)
            /\ sendq' = SubSeq(sendq, n + 1, Len(sendq))
            /\ ~closed =>
                 /\ pc' = "feed" /\ wrote' = "msg"
                 /\ fed' = Append(fed, sendq[1])
                 /\ rx_buf' = SubSeq(sendq, 2, n)]_vars
    /\ [][(pc = "feed" /\ lastOutcome' = "ok" /\ <<pc, fed>>' # <<pc, fed>>) =>
            IF rx_buf # <<>>
              THEN /\ pc' = "feed" /\ wrote' = "msg"
                   /\ fed' = Append(fed, Head(rx_buf))
                   /\ rx_buf' = Tail(rx_buf)
              ELSE /\ pc' = "flush" /\ wrote' = "flush"
                   /\ fed' = fed]_vars
    /\ [][(pc = "feed" /\ lastOutcome' = "err") =>
            /\ pc' = "select" /\ wrote' = "none"
            /\ fed' = fed /\ rx_buf' = <<>>]_vars
    /\ [][(pc # "flush" /\ pc' = "flush") =>
            pc = "feed" /\ rx_buf = <<>> /\ lastOutcome' = "ok"]_vars
    /\ [][(pc = "flush" /\ pc' # "flush") =>
            /\ pc' \in {"select", "disconnecting", "cancelled"}
            /\ wrote' = "none" /\ fed' = fed]_vars

\* A backlog longer than the limit: one batch of 32 was fed and flushed, and
\* the rest is still in the channel
C20_Witness ==
    /\ Len(recvd) = RecvLimit
    /\ Len(fed) = RecvLimit
    /\ sendq # <<>>
    /\ pc = "select"
    /\ lastOutcome = "ok"

----------------------------------------------------------------------------
\* C21: the close frame "module exited" is started only from the select of a
\* session that is not closed, so never after the peer's Close frame was
\* dispatched; closed never goes back from true to false; and at most one such
\* close frame is attempted per session.
C21_ModuleCloseAtMostOnce ==
    /\ [](module_closes <= 1)
    /\ [][closed => closed']_vars
    /\ [][module_closes' # module_closes =>
            /\ pc = "select" /\ ~closed /\ ~peerClose
            /\ wrote' = "close_away" /\ pc' = "module_close"]_vars
    /\ [][(wrote' = "close_away" /\ wrote # "close_away") =>
            module_closes' = module_closes + 1]_vars
    /\ [](pc = "module_close" => ~closed /\ ~peerClose)

\* The module-exit close was attempted once; the session is closed and the
\* peer's Close frame was dispatched afterwards
C21_Witness ==
    /\ module_closes = 1
    /\ peerClose
    /\ InLoop

\* C22: while the loop runs, a handler that has resolved is either already
\* taken or still sits in the slot as Done.  A Done slot changes only when the
\* in-flight arm takes it at the select, handing exactly the stored result to
\* the dispatch, or when the loop exits.  A payload is moved into the slot only
\* when every payload started before it has been taken, and no payload is
\* taken twice.
C22_PumpedResultKept ==
    /\ [](InLoop =>
            \A id \in Range(completed) :
                \/ id \in Range(taken)
                \/ current_message = Done(id, current_message.res))
    /\ [](\A i, j \in 1 .. Len(taken) : taken[i] = taken[j] => i = j)
    /\ [][(current_message.st = "Done" /\ InLoop') =>
            \/ current_message' = current_message
            \/ /\ pc = "select"
               /\ taken' = Append(taken, current_message.id)
               /\ handled' = current_message.res]_vars
    /\ [][started' # started => Range(started) \subseteq Range(taken')]_vars

\* A handler resolved while pumped; back at the select its result is still in
\* the slot and the next payload waits in the queue
C22_Witness ==
    /\ pc = "select"
    /\ current_message.st = "Done"
    /\ message_queue # <<>>

\* C23 (as claimed): a Close frame that acknowledges a close frame the server
\* itself sent is not counted as peer-initiated.  In particular, when the close
\* frame after a handler error has just gone out without error, the Close
\* frame dispatched next leaves the counter as it was.
C23_AckCloseNotCounted ==
    [][(handled = "Other" /\ lastOutcome = "ok" /\ ~peerClose /\ peerClose') =>
          metric' = metric]_vars

\* C24: every payload pushed onto the inbound queue is eventually taken by the
\* in-flight arm, having been moved into the slot and handled, unless the
\* loop exits first: outbound batches, ticks, pings and module-watch events
\* do not starve it.
C24_NoPayloadStarved ==
    \A i \in 1 .. MaxIn :
        (nextIn > i /\ InLoop) ~> (~InLoop \/ (i \in Range(started) /\ i \in Range(taken)))

\* All payloads were handled in a session that also took a tick, fed an
\* outbound message and saw the module-exit close
C24_Witness ==
    /\ InLoop
    /\ Len(taken) = MaxIn
    /\ ticks # 0
    /\ fed # <<>>
    /\ module_closes = 1

====
